---- MODULE Spec2Model ----
(***************************************************************************)
(* Model of meshery's controller orchestrator (MesheryControllersHelper,   *)
(* src/models/meshery_controllers.go) and of the per-context meshsync      *)
(* event accumulator (MeshsyncDataHandler, src/unnamed/part_000).          *)
(*                                                                         *)
(* The orchestrator's four methods are called in sequence by one driver.   *)
(* Every accumulator runs two goroutines (the live-event loop and the      *)
(* store-update loop) that write to the one database handle the            *)
(* orchestrator passes to every accumulator, under that handle's mutex.    *)
(***************************************************************************)
EXTENDS Naturals, FiniteSets, Sequences, TLC

\* ------------------------------------------------------------------ bounds
NumCtx == 2
MaxAcc == 2
NumKeys == 2
MaxSnap == 2
SnapSize == 3

Ctxs == 1..NumCtx
Accs == 1..MaxAcc
Keys == 1..NumKeys

\* controllers.MesheryControllerStatus: the value the code compares against,
\* the one the spec names beside it, and one other value.
NotDeployed == "NotDeployed"
Deployed == "Deployed"
Unknown == "Unknown"
Statuses == {NotDeployed, Deployed, Unknown}
NoStatus == "absent"

\* A meshsyncmodel.Object: its primary key and two of its parts. 0 is Go's zero
\* value of a part (an empty string, an empty sub-struct), 1 a non-zero value.
FieldVals == {0, 1}
Objects == [key : Keys, spec : FieldVals, status : FieldVals]
NoObject == [key |-> 0, spec |-> 0, status |-> 0]

\* broker.EventType of a message on meshery.meshsync.core
Add == "ADDED"
Update == "MODIFIED"
Delete == "DELETED"
ErrorEvent == "ERROR"
WriteEvents == {Add, Update, Delete}

\* The holder of dbHandler's mutex: the goroutine (of accumulator acc) inside
\* Lock()/Unlock(), or nobody.
NoLock == [acc |-> 0, who |-> "none"]
Holder(a, w) == [acc |-> a, who |-> w]

\* The message whose write is in progress, held by the goroutine that holds the
\* mutex: its event type, its decoded object, and whether utils.Unmarshal succeeded.
Snapshot == "STORE"

\* History of the model: which of an accumulator's two goroutines ("ev", "st")
\* last created or updated a row without an error, and the row's key.
NoWrite == [who |-> "none", key |-> 0]
Wrote(w, k) == [who |-> w, key |-> k]
NoMsg == [type |-> "none", obj |-> NoObject, decoded |-> FALSE]

VARIABLES
    ctxControllerHandlersMap,   \* ctx -> how often a handler set was built for it (0: no entry)
    ctxOperatorStatusMap,       \* ctx -> cached operator status, or NoStatus (no entry)
    ctxMeshsyncDataHandlerMap,  \* ctx -> the accumulator stored for it (0: no entry)
    lastCall,                   \* the orchestrator method that ran last, with its inputs:
                                \* the contexts it ranged over, those for which the call it
                                \* makes on the context succeeded, what GetStatus() returned
    deployCalls,                \* ctx -> Deploy() calls made by the last DeployUndeployedOperators
    orch,                       \* the driver inside UpdateMeshsynDataHandlers: pc, contexts left, current ctx/acc
    accCtx,                     \* accumulator -> the context it was constructed for (0: not constructed)
    resets,                     \* accumulator -> completed drop-and-recreate of the tables
    published,                  \* accumulator -> requestMeshsyncStore published the request
    runErr,                     \* accumulator -> Run() returned an error
    evPc, stPc,                 \* accumulator -> position of its live-event / store-update goroutine
    stLeft,                     \* accumulator -> objects of the current snapshot not yet iterated
    cur,                        \* the message of the write in progress (of the mutex holder)
    lock,                       \* dbHandler's mutex
    store,                      \* the rows of the objects table
    tables,                     \* the tables exist
    lastWrite,                  \* history: goroutine and key of the last create or update that returned nil
    dbUp,                       \* the database answers statements (environment)
    panicked                    \* an unchecked type assertion failed: the process is gone

orchVars == <<ctxControllerHandlersMap, ctxOperatorStatusMap, ctxMeshsyncDataHandlerMap,
              lastCall, deployCalls, orch>>
accVars == <<accCtx, resets, published, runErr>>
loopVars == <<evPc, stPc, stLeft>>
dbVars == <<cur, lock, store, tables, lastWrite>>
vars == <<orchVars, accVars, loopVars, dbVars, dbUp, panicked>>

Registered == {c \in Ctxs : ctxControllerHandlersMap[c] > 0}
Attached == {c \in Ctxs : ctxMeshsyncDataHandlerMap[c] > 0}
Idle == [pc |-> "idle", todo |-> {}, ctx |-> 0, acc |-> 0]
NoGot == [c \in Ctxs |-> NoStatus]
NoCall == [op |-> "none", ctxs |-> {}, ok |-> {}, got |-> NoGot]

\* NewMesheryControllersHelper: three empty maps. No accumulator exists; the
\* tables hold what an earlier run of the server left in them.
Init ==
    /\ ctxControllerHandlersMap = [c \in Ctxs |-> 0]
    /\ ctxOperatorStatusMap = [c \in Ctxs |-> NoStatus]
    /\ ctxMeshsyncDataHandlerMap = [c \in Ctxs |-> 0]
    /\ lastCall = NoCall
    /\ deployCalls = [c \in Ctxs |-> 0]
    /\ orch = Idle
    /\ accCtx = [a \in Accs |-> 0]
    /\ resets = [a \in Accs |-> 0]
    /\ published = [a \in Accs |-> FALSE]
    /\ runErr = [a \in Accs |-> FALSE]
    /\ evPc = [a \in Accs |-> "off"]
    /\ stPc = [a \in Accs |-> "off"]
    /\ stLeft = [a \in Accs |-> 0]
    /\ cur = NoMsg
    /\ lock = NoLock
    /\ store \in {{}, {[key |-> 1, spec |-> 1, status |-> 1]}}
    /\ tables = TRUE
    /\ lastWrite = NoWrite
    /\ dbUp = TRUE
    /\ panicked = FALSE

\* ------------------------------------------------------- the orchestrator

\* Mutant of RegisterOne: the handler set of a valid context is built again
\* although the context has an entry.
RegisterOneAgain(m, c, valid) ==
    IF m[c] < 2 /\ c \in valid THEN [m EXCEPT ![c] = m[c] + 1] ELSE m

\* Lines 114-126 for one context: an entry is built when there is none and
\* mesherykube.New(cfg) returns no error.
RegisterOne(m, c, valid) ==
    IF m[c] = 0 /\ c \in valid THEN [m EXCEPT ![c] = m[c] + 1] ELSE m

\* Mutant of RegisterAll: the first context that cannot be registered ends the
\* call (return where the code has continue), contexts ranged in order.
RegisterAllReturns(m, ctxs, valid) ==
    [c \in Ctxs |-> IF c \in ctxs /\ (\A d \in ctxs : d < c => (m[d] > 0 \/ d \in valid))
                    THEN RegisterOne(m, c, valid)[c] ELSE m[c]]

\* Lines 112-128, the range over ctxs: a context that cannot be registered is
\* skipped (continue) and the range goes on with the next one.
RegisterAll(m, ctxs, valid) ==
    [c \in Ctxs |-> IF c \in ctxs THEN RegisterOne(m, c, valid)[c] ELSE m[c]]

\* UpdateCtxControllerHandlers(ctxs): valid is the set of passed contexts for
\* which mesherykube.New(cfg) returns no error (GenerateKubeConfig's own error
\* is overwritten by New's at line 116 and decides nothing).
UpdateCtxControllerHandlers(ctxs, valid) ==
    /\ ~panicked /\ orch.pc = "idle"
    /\ ctxControllerHandlersMap' = RegisterAll(ctxControllerHandlersMap, ctxs, valid)
    /\ lastCall' = [op |-> "register", ctxs |-> ctxs, ok |-> valid, got |-> NoGot]
    /\ UNCHANGED <<ctxOperatorStatusMap, ctxMeshsyncDataHandlerMap, deployCalls, orch,
                   accVars, loopVars, dbVars, dbUp, panicked>>

\* Mutant of CacheStatus: a cached status is never replaced.
CacheStatusOnce(old, got) == IF old = NoStatus THEN got ELSE old

\* Line 137: the map entry is assigned what GetStatus() returned.
CacheStatus(old, got) == got

\* UpdateOperatorsStatusMap: got[c] is what the context's operator handler's
\* GetStatus() returns; failed are the contexts whose status query did not get
\* through to the cluster. GetStatus() returns a status and no error, so the
\* range sees no difference between the two.
UpdateOperatorsStatusMap(got, failed) ==
    /\ ~panicked /\ orch.pc = "idle"
    /\ ctxOperatorStatusMap' =
           [c \in Ctxs |-> IF c \in Registered THEN CacheStatus(ctxOperatorStatusMap[c], got[c])
                           ELSE ctxOperatorStatusMap[c]]
    /\ lastCall' = [op |-> "refresh", ctxs |-> Registered, ok |-> Registered \ failed,
                    got |-> [c \in Ctxs |-> IF c \in Registered THEN got[c] ELSE NoStatus]]
    /\ UNCHANGED <<ctxControllerHandlersMap, ctxMeshsyncDataHandlerMap, deployCalls, orch,
                   accVars, loopVars, dbVars, dbUp, panicked>>

\* Mutant of ShouldDeploy: every context not cached as Deployed is deployed.
ShouldDeployUnlessDeployed(c) == ctxOperatorStatusMap[c] # Deployed

\* The guard of lines 146-147: the context has a cached status and it is NotDeployed.
ShouldDeploy(c) ==
    /\ ctxOperatorStatusMap[c] # NoStatus
    /\ ctxOperatorStatusMap[c] = NotDeployed

\* Mutant of DeployedIn: the first failing Deploy() ends the call (return where
\* the code only logs), contexts ranged in order.
DeployedInUntilFailure(failing) ==
    {c \in Registered : ShouldDeploy(c) /\ \A d \in Registered :
                                              (d < c /\ ShouldDeploy(d)) => d \notin failing}

\* Lines 145-153: the contexts Deploy() is called for in one call, when Deploy()
\* fails for those in failing: the error is logged (line 150) and the range
\* goes on.
DeployedIn(failing) == {c \in Registered : ShouldDeploy(c)}

\* DeployUndeployedOperators: Deploy() is called for the registered contexts the
\* guard lets through; its error (for the contexts in failing) is logged only.
DeployUndeployedOperators(failing) ==
    /\ ~panicked /\ orch.pc = "idle"
    /\ deployCalls' = [c \in Ctxs |-> IF c \in DeployedIn(failing) THEN 1 ELSE 0]
    /\ lastCall' = [op |-> "reconcile", ctxs |-> Registered, ok |-> Registered \ failing,
                    got |-> NoGot]
    /\ UNCHANGED <<ctxControllerHandlersMap, ctxOperatorStatusMap, ctxMeshsyncDataHandlerMap,
                   orch, accVars, loopVars, dbVars, dbUp, panicked>>

\* ------------------------------------- UpdateMeshsynDataHandlers and Run

FreeAccs == {a \in Accs : accCtx[a] = 0}
NextAcc == CHOOSE a \in FreeAccs : \A b \in FreeAccs : a <= b

\* Line 68: the range over ctxControllerHandlersMap begins.
AttachBegin ==
    /\ ~panicked /\ orch.pc = "idle"
    /\ orch' = [pc |-> "attach", todo |-> Registered, ctx |-> 0, acc |-> 0]
    /\ lastCall' = [op |-> "attach", ctxs |-> Registered, ok |-> {}, got |-> NoGot]
    /\ UNCHANGED <<ctxControllerHandlersMap, ctxOperatorStatusMap, ctxMeshsyncDataHandlerMap,
                   deployCalls, accVars, loopVars, dbVars, dbUp, panicked>>

\* Mutant of NeedsAccumulator: the map is not looked up.
NeedsAccumulatorAlways(c) == TRUE

\* Line 69: a context that has an accumulator is left alone.
NeedsAccumulator(c) == ctxMeshsyncDataHandlerMap[c] = 0

\* Lines 69-94, one iteration of the range (Go ranges over a map in any order):
\* endpoint is whether GetPublicEndpoint() is non-empty, connected whether
\* nats.New returns no error. When both hold an accumulator is constructed and
\* its Run() begins, at removeStaleObjects' Lock().
AttachCtx(c, endpoint, connected) ==
    /\ ~panicked /\ orch.pc = "attach" /\ c \in orch.todo
    /\ IF NeedsAccumulator(c) /\ endpoint /\ connected
       THEN /\ FreeAccs # {}
            /\ accCtx' = [accCtx EXCEPT ![NextAcc] = c]
            /\ orch' = [pc |-> "runlock", todo |-> orch.todo \ {c}, ctx |-> c, acc |-> NextAcc]
       ELSE /\ orch' = [orch EXCEPT !.todo = orch.todo \ {c}]
            /\ UNCHANGED accCtx
    /\ UNCHANGED <<ctxControllerHandlersMap, ctxOperatorStatusMap, ctxMeshsyncDataHandlerMap,
                   lastCall, deployCalls, resets, published, runErr, loopVars, dbVars, dbUp,
                   panicked>>

\* Line 105: the range is over.
AttachEnd ==
    /\ ~panicked /\ orch.pc = "attach" /\ orch.todo = {}
    /\ orch' = Idle
    /\ UNCHANGED <<ctxControllerHandlersMap, ctxOperatorStatusMap, ctxMeshsyncDataHandlerMap,
                   lastCall, deployCalls, accVars, loopVars, dbVars, dbUp, panicked>>

\* removeStaleObjects, line 167: mh.dbHandler.Lock().
RunLock ==
    /\ ~panicked /\ orch.pc = "runlock" /\ lock = NoLock
    /\ lock' = Holder(orch.acc, "run")
    /\ orch' = [orch EXCEPT !.pc = "drop"]
    /\ UNCHANGED <<ctxControllerHandlersMap, ctxOperatorStatusMap, ctxMeshsyncDataHandlerMap,
                   lastCall, deployCalls, accVars, loopVars, cur, store, tables, lastWrite, dbUp,
                   panicked>>

\* Run, lines 38-39: the two goroutines are started.
StartLoops(pc, a) == [pc EXCEPT ![a] = "sub"]

\* Mutant of RunContinues: Run does not check the error.
RunContinuesAlways(err) == TRUE

\* Run, lines 35-37 and 41-43: an error of removeStaleObjects or of
\* requestMeshsyncStore is returned at once.
RunContinues(err) == ~err

\* Mutant of StoreAccumulator: the accumulator is stored whatever Run returned.
StoreAccumulatorAlways(m, c, a, err) == [m EXCEPT ![c] = a]

\* UpdateMeshsynDataHandlers, lines 95-101: the accumulator is stored for the
\* context when Run returned nil, and not when it returned an error.
StoreAccumulator(m, c, a, err) == IF err THEN m ELSE [m EXCEPT ![c] = a]

\* Run has returned: the orchestrator is back in its range (lines 96-102) and
\* goes on with the next context.
RunReturned(o) == [o EXCEPT !.pc = "attach", !.ctx = 0, !.acc = 0]

\* removeStaleObjects, lines 173-182: DropTable of all the tables. On an error
\* the deferred Unlock runs and removeStaleObjects returns it to Run.
RunDrop ==
    /\ ~panicked /\ orch.pc = "drop"
    /\ LET err == ~dbUp IN
       IF ~err
       THEN /\ store' = {} /\ tables' = FALSE
            /\ lastWrite' = NoWrite
            /\ orch' = [orch EXCEPT !.pc = "create"]
            /\ UNCHANGED <<lock, runErr, evPc, stPc, ctxMeshsyncDataHandlerMap>>
       ELSE /\ lock' = NoLock
            /\ UNCHANGED <<store, tables, lastWrite>>
            /\ IF RunContinues(err)
               THEN /\ stPc' = StartLoops(stPc, orch.acc)
                    /\ evPc' = StartLoops(evPc, orch.acc)
                    /\ orch' = [orch EXCEPT !.pc = "publish"]
                    /\ UNCHANGED <<runErr, ctxMeshsyncDataHandlerMap>>
               ELSE /\ runErr' = [runErr EXCEPT ![orch.acc] = TRUE]
                    /\ ctxMeshsyncDataHandlerMap' =
                           StoreAccumulator(ctxMeshsyncDataHandlerMap, orch.ctx, orch.acc, err)
                    /\ orch' = RunReturned(orch)
                    /\ UNCHANGED <<evPc, stPc>>
    /\ UNCHANGED <<ctxControllerHandlersMap, ctxOperatorStatusMap, lastCall, deployCalls,
                   accCtx, resets, published, stLeft, cur, dbUp, panicked>>

\* removeStaleObjects, lines 183-194: CreateTable and the deferred Unlock; then
\* Run, lines 35-39: the error is returned, or the two goroutines are started.
RunCreate ==
    /\ ~panicked /\ orch.pc = "create"
    /\ lock' = NoLock
    /\ LET err == ~dbUp IN
       /\ tables' = ~err
       /\ resets' = IF err THEN resets ELSE [resets EXCEPT ![orch.acc] = resets[orch.acc] + 1]
       /\ IF RunContinues(err)
          THEN /\ stPc' = StartLoops(stPc, orch.acc)
               /\ evPc' = StartLoops(evPc, orch.acc)
               /\ orch' = [orch EXCEPT !.pc = "publish"]
               /\ UNCHANGED <<runErr, ctxMeshsyncDataHandlerMap>>
          ELSE /\ runErr' = [runErr EXCEPT ![orch.acc] = TRUE]
               /\ ctxMeshsyncDataHandlerMap' =
                      StoreAccumulator(ctxMeshsyncDataHandlerMap, orch.ctx, orch.acc, err)
               /\ orch' = RunReturned(orch)
               /\ UNCHANGED <<evPc, stPc>>
    /\ UNCHANGED <<ctxControllerHandlersMap, ctxOperatorStatusMap, lastCall, deployCalls,
                   accCtx, published, stLeft, cur, store, lastWrite, dbUp, panicked>>

\* Run, lines 40-44, and UpdateMeshsynDataHandlers, lines 95-102: the request
\* is published (pubOk: Publish returns no error) and Run returns.
RunPublish(pubOk) ==
    /\ ~panicked /\ orch.pc = "publish"
    /\ published' = [published EXCEPT ![orch.acc] = pubOk]
    /\ runErr' = [runErr EXCEPT ![orch.acc] = ~pubOk]
    /\ ctxMeshsyncDataHandlerMap' =
           StoreAccumulator(ctxMeshsyncDataHandlerMap, orch.ctx, orch.acc, ~pubOk)
    /\ orch' = RunReturned(orch)
    /\ UNCHANGED <<ctxControllerHandlersMap, ctxOperatorStatusMap, lastCall, deployCalls,
                   accCtx, resets, loopVars, dbVars, dbUp, panicked>>

\* ------------------------------------------------------------ the database

\* A statement fails when the database does not answer or the tables are gone
\* (CreateTable failed after DropTable).
DbOk == dbUp /\ tables

HasRow(s, k) == \E r \in s : r.key = k
Row(s, k) == CHOOSE r \in s : r.key = k

\* dbHandler.Create(&obj), lines 126 and 152: INSERT; the primary key refuses a
\* second row of the same key.
CreateErr(s, obj) == ~DbOk \/ HasRow(s, obj.key)
DbCreate(s, obj) == IF CreateErr(s, obj) THEN s ELSE s \cup {obj}

\* gorm's Updates with a struct argument writes the struct's non-zero fields
\* only; with FullSaveAssociations the non-zero sub-structs are saved in full.
Merge(r, obj) ==
    [key |-> r.key,
     spec |-> IF obj.spec # 0 THEN obj.spec ELSE r.spec,
     status |-> IF obj.status # 0 THEN obj.status ELSE r.status]

\* dbHandler.Session(...).Updates(&obj), lines 128 and 154: UPDATE ... WHERE the
\* primary key matches; no matching row is no error.
UpdatesErr == ~DbOk
DbUpdates(s, obj) ==
    IF UpdatesErr THEN s ELSE {IF r.key = obj.key THEN Merge(r, obj) ELSE r : r \in s}

\* Mutant of DbDelete: the row is left in the table.
DbDeleteNothing(s, obj) == s

\* dbHandler.Delete(&obj), line 136: DELETE ... WHERE the primary key matches;
\* no matching row is no error.
DeleteErr == ~DbOk
DbDelete(s, obj) == IF DeleteErr THEN s ELSE {r \in s : r.key # obj.key}

\* The database stops or starts answering (environment).
DbToggle ==
    /\ ~panicked
    /\ dbUp' = ~dbUp
    /\ UNCHANGED <<orchVars, accVars, loopVars, dbVars, panicked>>

\* Mutant of Acquire: the goroutine does not wait for the mutex.
AcquireNoWait(a, w, m) == lock' = Holder(a, w) /\ cur' = m

\* mh.dbHandler.Lock() (lines 113, 149) by goroutine w of accumulator a, which
\* then holds message m; and the deferred Unlock() (lines 114, 150).
Acquire(a, w, m) == lock = NoLock /\ lock' = Holder(a, w) /\ cur' = m
Release == lock' = NoLock /\ cur' = NoMsg

\* -------------------------------- subscribeToMeshsyncEvents (live events)

\* Lines 48-54: SubscribeWithChannel; on an error the goroutine returns.
EvSubscribe(a, ok) ==
    /\ ~panicked /\ evPc[a] = "sub"
    /\ evPc' = [evPc EXCEPT ![a] = IF ok THEN "recv" ELSE "done"]
    /\ UNCHANGED <<orchVars, accVars, stPc, stLeft, dbVars, dbUp, panicked>>

\* Line 56: the range ends when eventsChan is closed.
EvClosed(a) ==
    /\ ~panicked /\ evPc[a] = "recv"
    /\ evPc' = [evPc EXCEPT ![a] = "done"]
    /\ UNCHANGED <<orchVars, accVars, stPc, stLeft, dbVars, dbUp, panicked>>

\* Lines 56-57, 63: a message arrives; an ErrorEvent goes to line 59, any other
\* to meshsyncEventsAccumulator and its Lock().
EvRecv(a, isError) ==
    /\ ~panicked /\ evPc[a] = "recv"
    /\ evPc' = [evPc EXCEPT ![a] = IF isError THEN "error" ELSE "lock"]
    /\ UNCHANGED <<orchVars, accVars, stPc, stLeft, dbVars, dbUp, panicked>>

\* Lines 59-60: event.Object.(error) is an unchecked type assertion; it panics
\* when the payload is no error value, and a panic in a goroutine ends the
\* process. Otherwise the error is logged and the loop continues.
EvLogError(a, isErrValue) ==
    /\ ~panicked /\ evPc[a] = "error"
    /\ IF isErrValue
       THEN evPc' = [evPc EXCEPT ![a] = "recv"] /\ UNCHANGED panicked
       ELSE panicked' = TRUE /\ UNCHANGED evPc
    /\ UNCHANGED <<orchVars, accVars, stPc, stLeft, dbVars, dbUp>>

\* meshsyncEventsAccumulator, lines 113-118: Lock, then the event's object is
\* decoded. m is the message: Add, Update or Delete, its object, and whether
\* Unmarshal succeeds.
EvLock(a, m) ==
    /\ ~panicked /\ evPc[a] = "lock"
    /\ Acquire(a, "ev", m)
    /\ evPc' = [evPc EXCEPT ![a] = "crit"]
    /\ UNCHANGED <<orchVars, accVars, stPc, stLeft, store, tables, lastWrite, dbUp, panicked>>

\* Mutant of EvAfter: an error of meshsyncEventsAccumulator ends the loop.
EvAfterReturnsOnError(err) == IF err THEN "done" ELSE "recv"

\* subscribeToMeshsyncEvents, lines 63-67: whether meshsyncEventsAccumulator
\* returned an error or nil, the loop goes on with the next message.
EvAfter(err) == "recv"

\* Mutant of FallsBack: a failed Create is returned as the error, no fallback.
FallsBackNever(createErr) == FALSE

\* The Create of lines 126-127 and 152-153 failed: the Updates fallback follows.
FallsBack(createErr) == createErr

\* meshsyncEventsAccumulator, lines 120-144: a decode error returns; Add and
\* Update try Create and go to the fallback when it fails; Delete deletes and
\* returns, error or not. Every return runs the deferred Unlock.
EvApply(a) ==
    /\ ~panicked /\ evPc[a] = "crit"
    /\ IF cur.decoded /\ cur.type \in {Add, Update} /\ FallsBack(CreateErr(store, cur.obj))
       THEN /\ evPc' = [evPc EXCEPT ![a] = "fallback"]
            /\ UNCHANGED <<lock, cur, store, lastWrite>>
       ELSE /\ LET err == IF ~cur.decoded THEN TRUE
                          ELSE IF cur.type = Delete THEN DeleteErr
                          ELSE CreateErr(store, cur.obj)
               IN /\ store' = IF err THEN store
                              ELSE IF cur.type = Delete THEN DbDelete(store, cur.obj)
                              ELSE DbCreate(store, cur.obj)
                  /\ lastWrite' = IF err THEN lastWrite
                                  ELSE IF cur.type = Delete THEN NoWrite
                                  ELSE Wrote("ev", cur.obj.key)
                  /\ evPc' = [evPc EXCEPT ![a] = EvAfter(err)]
            /\ Release
    /\ UNCHANGED <<orchVars, accVars, stPc, stLeft, tables, dbUp, panicked>>

\* meshsyncEventsAccumulator, lines 128-132: the Updates fallback; its error or
\* nil is returned, the deferred Unlock runs.
EvFallback(a) ==
    /\ ~panicked /\ evPc[a] = "fallback"
    /\ store' = DbUpdates(store, cur.obj)
    /\ lastWrite' = IF UpdatesErr THEN lastWrite ELSE Wrote("ev", cur.obj.key)
    /\ Release
    /\ evPc' = [evPc EXCEPT ![a] = EvAfter(UpdatesErr)]
    /\ UNCHANGED <<orchVars, accVars, stPc, stLeft, tables, dbUp, panicked>>

\* -------------------------------- subsribeToStoreUpdates (full-sync reply)

\* Lines 74-80: SubscribeWithChannel; on an error the goroutine returns.
StSubscribe(a, ok) ==
    /\ ~panicked /\ stPc[a] = "sub"
    /\ stPc' = [stPc EXCEPT ![a] = IF ok THEN "recv" ELSE "done"]
    /\ UNCHANGED <<orchVars, accVars, evPc, stLeft, dbVars, dbUp, panicked>>

\* Line 82: the range ends when storeChan is closed.
StClosed(a) ==
    /\ ~panicked /\ stPc[a] = "recv"
    /\ stPc' = [stPc EXCEPT ![a] = "done"]
    /\ UNCHANGED <<orchVars, accVars, evPc, stLeft, dbVars, dbUp, panicked>>

\* Lines 82-84: a message arrives; an ErrorEvent goes to line 85, any other to
\* the type assertion of line 89.
StRecv(a, isError) ==
    /\ ~panicked /\ stPc[a] = "recv"
    /\ stPc' = [stPc EXCEPT ![a] = IF isError THEN "error" ELSE "snap"]
    /\ UNCHANGED <<orchVars, accVars, evPc, stLeft, dbVars, dbUp, panicked>>

\* Lines 85-86: storeUpdate.Object.(error), unchecked as in the live loop.
StLogError(a, isErrValue) ==
    /\ ~panicked /\ stPc[a] = "error"
    /\ IF isErrValue
       THEN stPc' = [stPc EXCEPT ![a] = "recv"] /\ UNCHANGED panicked
       ELSE panicked' = TRUE /\ UNCHANGED stPc
    /\ UNCHANGED <<orchVars, accVars, evPc, stLeft, dbVars, dbUp>>

\* Line 89: storeUpdate.Object.([]interface{}), unchecked: a payload that is no
\* slice panics. Otherwise the range of line 91 begins over its n objects.
StAssert(a, isSlice, n) ==
    /\ ~panicked /\ stPc[a] = "snap"
    /\ IF isSlice
       THEN /\ stPc' = [stPc EXCEPT ![a] = "iter"]
            /\ stLeft' = [stLeft EXCEPT ![a] = n]
            /\ UNCHANGED panicked
       ELSE panicked' = TRUE /\ UNCHANGED <<stPc, stLeft>>
    /\ UNCHANGED <<orchVars, accVars, evPc, dbVars, dbUp>>

\* Lines 91-98: the next object of the snapshot is decoded; one that does not
\* decode is logged and skipped, the others go to persistStoreUpdate and its
\* Lock(). After the last object the loop waits for the next message.
StIter(a, decoded) ==
    /\ ~panicked /\ stPc[a] = "iter"
    /\ IF stLeft[a] = 0
       THEN stPc' = [stPc EXCEPT ![a] = "recv"] /\ UNCHANGED stLeft
       ELSE /\ stLeft' = [stLeft EXCEPT ![a] = stLeft[a] - 1]
            /\ stPc' = [stPc EXCEPT ![a] = IF decoded THEN "lock" ELSE "iter"]
    /\ UNCHANGED <<orchVars, accVars, evPc, dbVars, dbUp, panicked>>

\* persistStoreUpdate, lines 149-150: Lock; obj is the decoded object.
StLock(a, obj) ==
    /\ ~panicked /\ stPc[a] = "lock"
    /\ Acquire(a, "st", [type |-> Snapshot, obj |-> obj, decoded |-> TRUE])
    /\ stPc' = [stPc EXCEPT ![a] = "crit"]
    /\ UNCHANGED <<orchVars, accVars, evPc, stLeft, store, tables, lastWrite, dbUp, panicked>>

\* subsribeToStoreUpdates, lines 100-104: whether persistStoreUpdate returned
\* an error or nil, the range goes on with the next object.
StAfter(err) == "iter"

\* persistStoreUpdate, lines 152-153 and 161-163: Create; when it fails the
\* fallback follows, otherwise the deferred Unlock and the next object.
StApply(a) ==
    /\ ~panicked /\ stPc[a] = "crit"
    /\ IF FallsBack(CreateErr(store, cur.obj))
       THEN /\ stPc' = [stPc EXCEPT ![a] = "fallback"]
            /\ UNCHANGED <<lock, cur, store, lastWrite>>
       ELSE /\ store' = DbCreate(store, cur.obj)
            /\ lastWrite' = IF CreateErr(store, cur.obj) THEN lastWrite
                            ELSE Wrote("st", cur.obj.key)
            /\ Release
            /\ stPc' = [stPc EXCEPT ![a] = StAfter(CreateErr(store, cur.obj))]
    /\ UNCHANGED <<orchVars, accVars, evPc, stLeft, tables, dbUp, panicked>>

\* persistStoreUpdate, lines 154-159: the Updates fallback, the deferred Unlock.
StFallback(a) ==
    /\ ~panicked /\ stPc[a] = "fallback"
    /\ store' = DbUpdates(store, cur.obj)
    /\ lastWrite' = IF UpdatesErr THEN lastWrite ELSE Wrote("st", cur.obj.key)
    /\ Release
    /\ stPc' = [stPc EXCEPT ![a] = StAfter(UpdatesErr)]
    /\ UNCHANGED <<orchVars, accVars, evPc, stLeft, tables, dbUp, panicked>>

\* ------------------------------------------------------- specifications

\* The messages a live event can be once it is decoded under the lock.
DeleteObjects == {o \in Objects : o.spec = 0 /\ o.status = 0}
EvMessages ==
    [type : {Add, Update}, obj : Objects, decoded : {TRUE}]
        \cup [type : {Delete}, obj : DeleteObjects, decoded : {TRUE}]
        \cup [type : {Add}, obj : {NoObject}, decoded : {FALSE}]

OrchNext ==
    \/ \E ctxs \in SUBSET Ctxs : \E valid \in SUBSET ctxs :
           UpdateCtxControllerHandlers(ctxs, valid)
    \/ \E got \in [Ctxs -> Statuses] : \E failed \in SUBSET Ctxs :
           UpdateOperatorsStatusMap(got, failed)
    \/ \E failing \in SUBSET Ctxs : DeployUndeployedOperators(failing)

AttachNext ==
    \/ AttachBegin
    \/ \E c \in Ctxs : \E endpoint \in BOOLEAN : \E connected \in BOOLEAN :
           AttachCtx(c, endpoint, connected)
    \/ AttachEnd
    \/ RunLock
    \/ RunDrop
    \/ RunCreate

EvNext ==
    \E a \in Accs :
        \/ \E ok \in BOOLEAN : EvSubscribe(a, ok)
        \/ EvClosed(a)
        \/ \E isError \in BOOLEAN : EvRecv(a, isError)
        \/ \E isErrValue \in BOOLEAN : EvLogError(a, isErrValue)
        \/ \E m \in EvMessages : EvLock(a, m)
        \/ EvApply(a)
        \/ EvFallback(a)

StNext ==
    \E a \in Accs :
        \/ \E ok \in BOOLEAN : StSubscribe(a, ok)
        \/ StClosed(a)
        \/ \E isError \in BOOLEAN : StRecv(a, isError)
        \/ \E isErrValue \in BOOLEAN : StLogError(a, isErrValue)
        \/ \E isSlice \in BOOLEAN : \E n \in 0..MaxSnap : StAssert(a, isSlice, n)
        \/ \E decoded \in BOOLEAN : StIter(a, decoded)
        \/ \E obj \in Objects : StLock(a, obj)
        \/ StApply(a)
        \/ StFallback(a)

\* The whole system.
Next ==
    \/ OrchNext
    \/ AttachNext
    \/ \E pubOk \in BOOLEAN : RunPublish(pubOk)
    \/ EvNext
    \/ StNext
    \/ DbToggle

Spec == Init /\ [][Next]_vars

\* The orchestrator and the start of its accumulators, the goroutines started
\* but not scheduled yet.
OrchSysNext ==
    \/ OrchNext
    \/ AttachNext
    \/ \E pubOk \in BOOLEAN : RunPublish(pubOk)
    \/ DbToggle

SpecOrch == Init /\ [][OrchSysNext]_vars

\* One registered context whose full-sync request gets published: the state
\* after UpdateCtxControllerHandlers was called with context 1, valid.
InitAcc ==
    /\ ctxControllerHandlersMap = [c \in Ctxs |-> IF c = 1 THEN 1 ELSE 0]
    /\ ctxOperatorStatusMap = [c \in Ctxs |-> NoStatus]
    /\ ctxMeshsyncDataHandlerMap = [c \in Ctxs |-> 0]
    /\ lastCall = [op |-> "register", ctxs |-> {1}, ok |-> {1}, got |-> NoGot]
    /\ deployCalls = [c \in Ctxs |-> 0]
    /\ orch = Idle
    /\ accCtx = [a \in Accs |-> 0]
    /\ resets = [a \in Accs |-> 0]
    /\ published = [a \in Accs |-> FALSE]
    /\ runErr = [a \in Accs |-> FALSE]
    /\ evPc = [a \in Accs |-> "off"]
    /\ stPc = [a \in Accs |-> "off"]
    /\ stLeft = [a \in Accs |-> 0]
    /\ cur = NoMsg
    /\ lock = NoLock
    /\ store \in {{}, {[key |-> 1, spec |-> 1, status |-> 1]}}
    /\ tables = TRUE
    /\ lastWrite = NoWrite
    /\ dbUp = TRUE
    /\ panicked = FALSE

\* That context's accumulator: its start, its two goroutines and the database.
AccSysNext ==
    \/ AttachNext
    \/ RunPublish(TRUE)
    \/ EvNext
    \/ StNext
    \/ DbToggle

SpecAcc == InitAcc /\ [][AccSysNext]_vars

\* ------------------------------------------------------------- properties

\* A goroutine of accumulator a was started and has not returned.
EvRunning(a) == evPc[a] \notin {"off", "done"}
StRunning(a) == stPc[a] \notin {"off", "done"}
LoopsRunning(a) == EvRunning(a) \/ StRunning(a)
RunningFor(c) == {a \in Accs : accCtx[a] = c /\ LoopsRunning(a)}

\* C1: for every context there is at no time more than one accumulator whose
\* subscriber goroutines are running, whatever passes of
\* UpdateMeshsynDataHandlers came before, failed ones included.
C1_AtMostOneRunningAccumulator ==
    \A c \in Ctxs : Cardinality(RunningFor(c)) <= 1

\* C2: after a pass of DeployUndeployedOperators, Deploy was called for a
\* context only if its cached status was NotDeployed: not for a context cached
\* as Deployed or as any other value, nor for one without a cached status.
C2_DeployOnlyNotDeployed ==
    lastCall.op = "reconcile" =>
        \A c \in Ctxs : deployCalls[c] > 0 =>
            /\ c \in Registered
            /\ ctxOperatorStatusMap[c] = NotDeployed

C2_Witness ==
    /\ lastCall.op = "reconcile"
    /\ \E c, d \in Registered :
        /\ deployCalls[c] = 1 /\ ctxOperatorStatusMap[c] = NotDeployed
        /\ deployCalls[d] = 0 /\ ctxOperatorStatusMap[d] = Deployed

\* C3: a call of UpdateCtxControllerHandlers registers every passed context
\* whose client can be built, whichever other passed contexts are invalid, and
\* leaves the invalid ones as they were (absent, when they were absent); the
\* next UpdateOperatorsStatusMap gives every registered context a cached
\* status, and the next DeployUndeployedOperators decides on each of them by
\* its own cached status.
C3_FaultIsolation ==
    [][/\ lastCall'.op = "register" =>
            /\ \A c \in lastCall'.ok : c \in Registered'
            /\ \A c \in lastCall'.ctxs \ lastCall'.ok : (c \in Registered') = (c \in Registered)
       /\ lastCall'.op = "refresh" =>
            \A c \in Registered : ctxOperatorStatusMap'[c] \in Statuses
       /\ lastCall'.op = "reconcile" =>
            \A c \in Registered :
                deployCalls'[c] = (IF ctxOperatorStatusMap[c] = NotDeployed THEN 1 ELSE 0)
      ]_vars

\* A call with a valid and an invalid context: the valid one is registered, the
\* invalid one is not.
C3_Witness ==
    /\ lastCall.op = "register"
    /\ \E c \in lastCall.ok : c \in Registered
    /\ \E c \in lastCall.ctxs \ lastCall.ok : c \notin Registered

\* Run has returned for accumulator a.
Returned(a) == accCtx[a] # 0 /\ orch.acc # a
StoredAt(a) == {c \in Ctxs : ctxMeshsyncDataHandlerMap[c] = a}

\* C8: when the drop or the recreation of the tables fails, Run returns the
\* error, neither goroutine is started, no full-sync request is published and
\* the orchestrator stores no accumulator for the context.
C8_FailedResetStartsNothing ==
    \A a \in Accs :
        (accCtx[a] # 0 /\ resets[a] = 0) =>
            /\ evPc[a] = "off" /\ stPc[a] = "off"
            /\ ~published[a]
            /\ StoredAt(a) = {}
            /\ Returned(a) => runErr[a]

C8_Witness ==
    \E a \in Accs :
        /\ Returned(a) /\ resets[a] = 0 /\ runErr[a]
        /\ ctxMeshsyncDataHandlerMap[accCtx[a]] = 0

RowsOf(s, k) == {r \in s : r.key = k}
UniqueKeys == \A k \in Keys : Cardinality(RowsOf(store, k)) <= 1

\* Goroutine w of accumulator a holds the mutex and leaves it in this step.
Completes(a, w) == lock = Holder(a, w) /\ lock' = NoLock

\* C4: the store never holds two rows of one key; an Add (or Update) applied
\* while the key has no row takes the create path and leaves exactly one row, and
\* one applied while the key has a row (the same Add a second time) finds
\* Create refused, takes the update fallback and leaves exactly one row.
C4_OneRowPerKey ==
    /\ []UniqueKeys
    /\ [][\A a \in Accs :
            /\ (evPc[a] = "crit" /\ evPc'[a] # "crit" /\ cur.decoded
                    /\ cur.type \in {Add, Update} /\ DbOk) =>
                 IF HasRow(store, cur.obj.key)
                 THEN evPc'[a] = "fallback" /\ store' = store
                 ELSE evPc'[a] = "recv" /\ store' = store \cup {cur.obj}
            /\ (evPc[a] = "fallback" /\ evPc'[a] # "fallback" /\ HasRow(store, cur.obj.key)) =>
                 /\ evPc'[a] = "recv"
                 /\ Cardinality(RowsOf(store', cur.obj.key)) = 1
         ]_vars

\* The same key a second time: the live loop created or updated the key's row
\* last, and its next Add for that key is on the fallback path.
C4_Witness ==
    \E a \in Accs :
        /\ evPc[a] = "fallback" /\ cur.type = Add
        /\ lastWrite = Wrote("ev", cur.obj.key)
        /\ Cardinality(RowsOf(store, cur.obj.key)) = 1

Other(w) == IF w = "ev" THEN "st" ELSE "ev"

\* C5: when one of an accumulator's two loops writes an object (a snapshot
\* object, or a live Add or Update) for a key whose row the other loop wrote
\* last, and the database answers, the row afterwards equals the object written
\* last: it is not a mix of the two writes.
C5_LastWriteWins ==
    [][\A a \in Accs : \A w \in {"ev", "st"} :
          (/\ Completes(a, w)
           /\ cur.decoded /\ cur.type \in {Add, Update, Snapshot}
           /\ DbOk
           /\ HasRow(store, cur.obj.key)
           /\ lastWrite = Wrote(Other(w), cur.obj.key))
          => Row(store', cur.obj.key) = cur.obj
      ]_vars

InWrite(a, w) ==
    IF w = "ev" THEN evPc[a] \in {"crit", "fallback"}
    ELSE IF w = "st" THEN stPc[a] \in {"crit", "fallback"}
    ELSE orch.acc = a /\ orch.pc \in {"drop", "create"}

\* C6: a goroutine is between Lock and Unlock exactly while it is inside a write
\* (the create attempt with its fallback, a delete, the drop and recreation of
\* the tables), on every path; the store changes only in a step of the mutex
\* holder; so the two loops of an accumulator are never both inside a write.
C6_WritesUnderLock ==
    /\ [](\A a \in Accs : \A w \in {"ev", "st", "run"} : InWrite(a, w) <=> lock = Holder(a, w))
    /\ [](\A a \in Accs : ~(InWrite(a, "ev") /\ InWrite(a, "st")))
    /\ [][(store' # store \/ tables' # tables) => lock # NoLock]_vars

\* The live loop is in its fallback while the store loop of the same
\* accumulator waits for the mutex.
C6_Witness ==
    \E a \in Accs : evPc[a] = "fallback" /\ lock = Holder(a, "ev") /\ stPc[a] = "lock"

\* C7: an accumulator drops and recreates the tables at most once; its
\* goroutines are started, its request is published and its goroutines write
\* only after that one reset is complete.
C7_ResetOnceBeforeAll ==
    /\ [](\A a \in Accs :
            /\ resets[a] <= 1
            /\ (evPc[a] # "off" \/ stPc[a] # "off" \/ published[a]) =>
                   (resets[a] = 1 /\ ~InWrite(a, "run") /\ ~(orch.acc = a /\ orch.pc = "runlock")))
    /\ [][(lock.who \in {"ev", "st"} /\ store' # store) => resets[lock.acc] = 1]_vars

\* An accumulator whose reset is done, whose request is published and whose
\* loops have persisted a row.
C7_Witness ==
    \E a \in Accs :
        /\ resets[a] = 1 /\ published[a]
        /\ evPc[a] = "recv" /\ stPc[a] = "recv"
        /\ store # {} /\ lastWrite # NoWrite

\* The step is the live loop's (the store loop's) handling of an Error message.
EvErrorHandled(a) ==
    /\ evPc[a] = "error" /\ stPc' = stPc /\ orch' = orch /\ dbUp' = dbUp
    /\ \A b \in Accs \ {a} : evPc'[b] = evPc[b]
    /\ evPc'[a] # "error" \/ panicked'
StErrorHandled(a) ==
    /\ stPc[a] = "error" /\ evPc' = evPc /\ orch' = orch /\ dbUp' = dbUp
    /\ \A b \in Accs \ {a} : stPc'[b] = stPc[b]
    /\ stPc'[a] # "error" \/ panicked'

\* C9: a message of type Error, on either subject, leaves the store as it is
\* and the loop goes on to wait for the next message.
C9_ErrorEventSkipped ==
    [][\A a \in Accs :
          /\ EvErrorHandled(a) => (store' = store /\ evPc'[a] = "recv" /\ ~panicked')
          /\ StErrorHandled(a) => (store' = store /\ stPc'[a] = "recv" /\ ~panicked')
      ]_vars

\* The live loop holds a decoded Delete for a key that has no row.
DeleteOfMissing(a) ==
    /\ evPc[a] = "crit" /\ lock = Holder(a, "ev")
    /\ cur.decoded /\ cur.type = Delete
    /\ ~HasRow(store, cur.obj.key)

\* C10: a Delete for a key that has no row leaves the store unchanged and the
\* live loop goes on to wait for the next message.
C10_DeleteOfMissingKey ==
    [][\A a \in Accs :
          (DeleteOfMissing(a) /\ evPc'[a] # "crit") =>
              (store' = store /\ evPc'[a] = "recv" /\ ~panicked')
      ]_vars

C10_Witness ==
    \E a \in Accs : DeleteOfMissing(a) /\ tables /\ resets[a] = 1

\* ------------------------------------------- the cold-start scenario

\* One context whose accumulator starts on tables that hold rows of an earlier
\* run, with the database up and the broker reachable. The full-sync reply is
\* one snapshot of SnapSize objects with the keys SnapSize, ..., 1; when the
\* store loop is through with it, one Delete for one of these keys arrives on
\* the live subject.
ScenKeys == 1..SnapSize
ScenObjects == [key : ScenKeys, spec : FieldVals, status : FieldVals]
ScenDelete(k) == [type |-> Delete, obj |-> [key |-> k, spec |-> 0, status |-> 0], decoded |-> TRUE]
SnapshotDone(a) == stPc[a] = "recv" /\ lastWrite = Wrote("st", 1)

InitScen == InitAcc /\ store # {}

ScenNext ==
    \/ AttachBegin
    \/ \E c \in Ctxs : AttachCtx(c, TRUE, TRUE)
    \/ AttachEnd
    \/ RunLock
    \/ RunDrop
    \/ RunCreate
    \/ RunPublish(TRUE)
    \/ \E a \in Accs : EvSubscribe(a, TRUE)
    \/ \E a \in Accs : StSubscribe(a, TRUE)
    \/ \E a \in Accs : published[a] /\ store = {} /\ StRecv(a, FALSE)
    \/ \E a \in Accs : StAssert(a, TRUE, SnapSize)
    \/ \E a \in Accs : StIter(a, TRUE)
    \/ \E a \in Accs : \E obj \in ScenObjects : obj.key = stLeft[a] + 1 /\ StLock(a, obj)
    \/ \E a \in Accs : StApply(a)
    \/ \E a \in Accs : SnapshotDone(a) /\ EvRecv(a, FALSE)
    \/ \E a \in Accs : \E k \in ScenKeys : EvLock(a, ScenDelete(k))
    \/ \E a \in Accs : EvApply(a)

SpecScen == InitScen /\ [][ScenNext]_vars

\* C11: in the scenario, the reset of Run leaves an empty store although rows
\* of an earlier run were there; every object of the snapshot is created as a
\* row of its own, so that the store holds exactly the snapshot's SnapSize rows
\* when the store loop is through with it; and the Delete removes exactly the
\* row of its key, SnapSize - 1 rows remaining.
C11_ColdStartSnapshotDelete ==
    [][\A a \in Accs :
          /\ (orch.pc = "create" /\ orch.acc = a /\ resets'[a] = resets[a] + 1) => store' = {}
          /\ (stPc[a] = "crit" /\ stPc'[a] # "crit") =>
                 (stPc'[a] = "iter" /\ cur.obj \notin store /\ store' = store \cup {cur.obj})
          /\ (stPc[a] = "iter" /\ stPc'[a] = "recv") =>
                 ({r.key : r \in store} = ScenKeys /\ Cardinality(store) = SnapSize)
          /\ (evPc[a] = "crit" /\ evPc'[a] # "crit") =>
                 /\ evPc'[a] = "recv"
                 /\ store' = {r \in store : r.key # cur.obj.key}
                 /\ Cardinality(store') = SnapSize - 1
      ]_vars

\* The scenario is through: reset, snapshot persisted, one row deleted.
C11_Witness ==
    \E a \in Accs :
        /\ resets[a] = 1 /\ published[a]
        /\ evPc[a] = "recv" /\ stPc[a] = "recv"
        /\ lastWrite = NoWrite
        /\ Cardinality(store) = SnapSize - 1

\* ------------------------------------------------ orchestrator passes

\* C12: a valid context that is not registered gets its handler set from
\* UpdateCtxControllerHandlers, built once; UpdateOperatorsStatusMap caches
\* NotDeployed (Deployed) for it when that is what GetStatus() returns;
\* DeployUndeployedOperators calls Deploy() for it once when NotDeployed is
\* cached and not at all when Deployed is cached, and after such a call no
\* Deploy() call is on record for a context cached as Deployed.
C12_DeployUntilDeployed ==
    /\ [][\A c \in Ctxs :
            /\ (lastCall'.op = "register" /\ c \in lastCall'.ok /\ c \notin Registered) =>
                   ctxControllerHandlersMap'[c] = 1
            /\ (lastCall'.op = "refresh" /\ c \in Registered
                    /\ lastCall'.got[c] \in {NotDeployed, Deployed}) =>
                   ctxOperatorStatusMap'[c] = lastCall'.got[c]
            /\ (lastCall'.op = "reconcile" /\ c \in Registered
                    /\ ctxOperatorStatusMap[c] = NotDeployed) => deployCalls'[c] = 1
            /\ (lastCall'.op = "reconcile" /\ c \in Registered
                    /\ ctxOperatorStatusMap[c] = Deployed) => deployCalls'[c] = 0
         ]_vars
    /\ [](lastCall.op = "reconcile" =>
             \A c \in Ctxs : ctxOperatorStatusMap[c] = Deployed => deployCalls[c] = 0)

\* The end of the scenario: a context registered once, cached as Deployed by a
\* refresh, and passed over by the DeployUndeployedOperators that followed.
C12_Witness ==
    /\ lastCall.op = "reconcile"
    /\ \E c \in lastCall.ctxs :
        /\ ctxControllerHandlersMap[c] = 1
        /\ ctxOperatorStatusMap[c] = Deployed
        /\ deployCalls[c] = 0

\* C14: a call of DeployUndeployedOperators calls Deploy() exactly once for
\* every registered context cached as NotDeployed, whether or not Deploy()
\* fails for another context in the call, and whether or not the call before
\* already called Deploy() for the context.
C14_DeployEveryNotDeployed ==
    [][lastCall'.op = "reconcile" =>
          \A c \in Registered :
              ctxOperatorStatusMap[c] = NotDeployed => deployCalls'[c] = 1
      ]_vars

\* Two contexts cached as NotDeployed; Deploy() failed for the lower one and
\* was called for both.
C14_Witness ==
    /\ lastCall.op = "reconcile"
    /\ \E c, d \in Registered :
        /\ c < d /\ c \notin lastCall.ok
        /\ ctxOperatorStatusMap[c] = NotDeployed /\ ctxOperatorStatusMap[d] = NotDeployed
        /\ deployCalls[c] = 1 /\ deployCalls[d] = 1

\* C15: in a call of UpdateOperatorsStatusMap, a registered context whose
\* status query fails keeps the cached status it had before the call (none,
\* when it had none), and every context whose query succeeds has the status
\* GetStatus() returned.
C15_StaleOnFailedQuery ==
    [][lastCall'.op = "refresh" =>
          \A c \in Registered :
              IF c \in lastCall'.ok
              THEN ctxOperatorStatusMap'[c] = lastCall'.got[c]
              ELSE ctxOperatorStatusMap'[c] = ctxOperatorStatusMap[c]
      ]_vars

\* ------------------------------------------------ the accumulator map

\* Goroutine w of accumulator a returns from its SubscribeWithChannel with an
\* error in this step (lines 50-53, 77-80).
SubscribeFails(a) ==
    \/ evPc[a] = "sub" /\ evPc'[a] = "done"
    \/ stPc[a] = "sub" /\ stPc'[a] = "done"

\* C13: a context has an entry in ctxMeshsyncDataHandlerMap only if its
\* accumulator's reset succeeded, its request was published and both its
\* subscriptions were established: the entry is of an accumulator that was
\* reset, has published and whose goroutines were started; no entry is made for
\* an accumulator one of whose goroutines has returned; and an accumulator
\* whose subscription fails has no entry afterwards, so that the context is
\* attempted again.
C13_PresenceMeansActive ==
    /\ [](\A c \in Attached :
             LET a == ctxMeshsyncDataHandlerMap[c] IN
                 /\ accCtx[a] = c /\ resets[a] = 1 /\ published[a] /\ ~runErr[a]
                 /\ evPc[a] # "off" /\ stPc[a] # "off")
    /\ [][\A a \in Accs : \A c \in Ctxs :
            /\ (ctxMeshsyncDataHandlerMap[c] # a /\ ctxMeshsyncDataHandlerMap'[c] = a) =>
                   (evPc[a] # "done" /\ stPc[a] # "done")
            /\ SubscribeFails(a) => ctxMeshsyncDataHandlerMap'[c] # a
         ]_vars

\* The range of UpdateMeshsynDataHandlers leaves a context without calling Run
\* for it (lines 69, 76, 91), and Run returns to the range (lines 95-102).
AttachSkips == orch.pc = "attach" /\ orch'.pc = "attach" /\ orch'.todo # orch.todo
RunReturns == orch.pc \in {"drop", "create", "publish"} /\ orch'.pc = "attach"

\* C16: in a pass of UpdateMeshsynDataHandlers, a context the range leaves
\* without starting an accumulator (it has one; its endpoint is empty; the
\* connection fails) keeps the map as it is; a context whose Run returns an
\* error gets no entry and one whose Run returns nil gets its accumulator as
\* entry, the other entries unchanged; in every case the range goes on with the
\* contexts left and ends only when none is left; an entry once made is not
\* touched.
C16_AttachPassOutcome ==
    [][/\ AttachSkips =>
            /\ ctxMeshsyncDataHandlerMap' = ctxMeshsyncDataHandlerMap
            /\ \E c \in orch.todo : orch'.todo = orch.todo \ {c}
       /\ RunReturns =>
            /\ ctxMeshsyncDataHandlerMap'[orch.ctx] =
                   (IF runErr'[orch.acc] THEN 0 ELSE orch.acc)
            /\ \A c \in Ctxs \ {orch.ctx} :
                   ctxMeshsyncDataHandlerMap'[c] = ctxMeshsyncDataHandlerMap[c]
            /\ orch'.todo = orch.todo
       /\ (orch.pc = "attach" /\ orch'.pc = "idle") => orch.todo = {}
       /\ \A c \in Attached : ctxMeshsyncDataHandlerMap'[c] = ctxMeshsyncDataHandlerMap[c]
      ]_vars

\* A pass is over in which the accumulator of one context started and was
\* stored while that of another context failed to start.
C16_Witness ==
    /\ orch = Idle /\ lastCall.op = "attach"
    /\ \E c, d \in lastCall.ctxs : \E a, b \in Accs :
        /\ c # d /\ a # b
        /\ accCtx[a] = c /\ ~runErr[a] /\ ctxMeshsyncDataHandlerMap[c] = a
        /\ accCtx[b] = d /\ runErr[b] /\ ctxMeshsyncDataHandlerMap[d] = 0

\* ------------------------------------------------------ two contexts

\* Two registered contexts with the database up and the broker reachable: the
\* state after UpdateCtxControllerHandlers was called with both, valid. Every
\* accumulator gets the orchestrator's one database handle (line 94). The live
\* loops subscribe and persist events; the store loops wait for their reply.
InitMulti ==
    /\ ctxControllerHandlersMap = [c \in Ctxs |-> 1]
    /\ ctxOperatorStatusMap = [c \in Ctxs |-> NoStatus]
    /\ ctxMeshsyncDataHandlerMap = [c \in Ctxs |-> 0]
    /\ lastCall = [op |-> "register", ctxs |-> Ctxs, ok |-> Ctxs, got |-> NoGot]
    /\ deployCalls = [c \in Ctxs |-> 0]
    /\ orch = Idle
    /\ accCtx = [a \in Accs |-> 0]
    /\ resets = [a \in Accs |-> 0]
    /\ published = [a \in Accs |-> FALSE]
    /\ runErr = [a \in Accs |-> FALSE]
    /\ evPc = [a \in Accs |-> "off"]
    /\ stPc = [a \in Accs |-> "off"]
    /\ stLeft = [a \in Accs |-> 0]
    /\ cur = NoMsg
    /\ lock = NoLock
    /\ store \in {{}, {[key |-> 1, spec |-> 1, status |-> 1]}}
    /\ tables = TRUE
    /\ lastWrite = NoWrite
    /\ dbUp = TRUE
    /\ panicked = FALSE

MultiNext ==
    \/ AttachNext
    \/ RunPublish(TRUE)
    \/ \E a \in Accs :
        \/ EvSubscribe(a, TRUE)
        \/ EvRecv(a, FALSE)
        \/ \E m \in EvMessages : EvLock(a, m)
        \/ EvApply(a)
        \/ EvFallback(a)

SpecMulti == InitMulti /\ [][MultiNext]_vars

\* The accumulator that is inside removeStaleObjects, when the stored
\* accumulator of another context is running.
ResetBesideRunning(b) ==
    /\ orch.acc = b /\ orch.pc \in {"drop", "create"}
    /\ \E a \in Accs \ {b} :
        /\ accCtx[a] # 0 /\ accCtx[a] # accCtx[b]
        /\ ctxMeshsyncDataHandlerMap[accCtx[a]] = a
        /\ LoopsRunning(a)

\* C17: the reset of one context's accumulator leaves the rows that the
\* running accumulator of another context has persisted: while a further
\* context is attached the rows in the store stay as they are.
C17_ResetKeepsOtherContexts ==
    [][\A b \in Accs : ResetBesideRunning(b) => store' = store]_vars

\* ------------------------------------------------------ the three maps

HasStatus == {c \in Ctxs : ctxOperatorStatusMap[c] # NoStatus}

\* C18: the three maps only grow. No step removes a context from the
\* controller map or from the status cache, or removes or replaces an entry of
\* the accumulator map; the handler set of a context is built once and never
\* again, whatever UpdateCtxControllerHandlers is called with; the status
\* cache and the accumulator map hold registered contexts only.
C18_MapsOnlyGrow ==
    /\ [](\A c \in Ctxs : ctxControllerHandlersMap[c] <= 1)
    /\ [](HasStatus \subseteq Registered /\ Attached \subseteq Registered)
    /\ [][\A c \in Ctxs :
            /\ c \in Registered => ctxControllerHandlersMap'[c] = ctxControllerHandlersMap[c]
            /\ c \in HasStatus => ctxOperatorStatusMap'[c] # NoStatus
            /\ c \in Attached => ctxMeshsyncDataHandlerMap'[c] = ctxMeshsyncDataHandlerMap[c]
         ]_vars

\* UpdateCtxControllerHandlers was just called with a valid context that was
\* registered before (it has a cached status and an accumulator): its handler
\* set is the one built at first.
C18_Witness ==
    /\ lastCall.op = "register"
    /\ \E c \in lastCall.ok :
        /\ c \in HasStatus /\ c \in Attached
        /\ ctxControllerHandlersMap[c] = 1

\* --------------------------------------------------- the two goroutines

\* C19: once subscribed, a loop ends only when its channel is closed: a
\* goroutine returns only from its SubscribeWithChannel or from waiting for the
\* next message, never from handling a message, and no message ends the
\* process, whatever its type and payload.
C19_LoopsEndOnlyOnClose ==
    [][/\ ~panicked'
       /\ \A a \in Accs :
            /\ (evPc[a] # "done" /\ evPc'[a] = "done") => evPc[a] \in {"sub", "recv"}
            /\ (stPc[a] # "done" /\ stPc'[a] = "done") => stPc[a] \in {"sub", "recv"}
      ]_vars

\* C20: in every Run, the store loop has subscribed to
\* meshery-server.meshsync.store when requestMeshsyncStore publishes the
\* request.
C20_SubscribedBeforePublish ==
    [][\A a \in Accs :
          (~published[a] /\ published'[a]) => stPc[a] \notin {"off", "sub", "done"}
      ]_vars

====
